---- MODULE Spec2Model ----
(***************************************************************************)
(* Expiry cleanup of maxbarbieri/sqlitestore (cleanup.go).                 *)
(*                                                                         *)
(* A store holds session rows (id, expires_on).  StartCleanup spawns a     *)
(* goroutine that, on every tick of a time.Ticker, runs                    *)
(* deleteExpiredSessions: select the expired ids, load each session and    *)
(* hand it to the pre-delete callback, then delete the ids one by one.     *)
(* StopCleanup stops the goroutine through the quit/done channels.         *)
(* The application saves and destroys sessions and replaces the callback   *)
(* concurrently with the goroutine.                                        *)
(***************************************************************************)
EXTENDS Integers, Sequences, FiniteSets, TLC

\* ------------------------------------------------------------------ bounds
NumIds == 2
\* time is counted in minutes; instants later than MaxClock are not told apart
MaxClock == 1
\* largest age (in minutes) the application gives a saved session
MaxAge == 0
\* largest interval (in minutes) handed to StartCleanup
MaxInterval == 1
\* cleanup goroutines that can exist (one per StartCleanup call)
NumLoops == 2

Ids == 1..NumIds
Loops == 1..NumLoops
Intervals == (0 - 1)..MaxInterval

Minute == 1
defaultInterval == Minute * 5

\* the nil func value and the functions the application registers
Nil == "nil"
Callbacks == {"cbA", "cbB"}

NoSession == 0

VARIABLES
    \* ---- the store
    rows,       \* the session table: id -> expires_on, for the rows that exist
    callback,   \* m.expiredSessionPreDeleteCallback
    clock,      \* the database's CURRENT_TIMESTAMP
    \* ---- one cleanup goroutine per StartCleanup call, and its StopCleanup caller
    maxLoops,   \* how many times the application calls StartCleanup
    requested,  \* the intervals the application may hand to StartCleanup
    loopPc,     \* position of the goroutine
    stopPc,     \* position of the StopCleanup call paired with the goroutine
    interval,   \* the interval handed to time.NewTicker
    tickerOn,   \* the ticker exists and has not been stopped
    untilTick,  \* minutes until the ticker fires next
    tickReady,  \* ticker.C (capacity 1) holds a tick
    \* ---- locals of deleteExpiredSessions / getExpiredSessionsIdsAndCallCallbacks
    result,     \* expiredSessionsRows: the rows the cursor has not yet returned
    ids,        \* expiredSessionsIds
    session,    \* session.ID of the session just loaded
    cbSeen,     \* the func value the nil check of line 98 read
    i,          \* index of the delete loop
    err,        \* what deleteExpiredSessions returned
    \* ---- history of the current sweep cycle (not program state)
    selected,   \* ids of the rows that were expired when the select ran
    scanFailed, \* ids whose Scan failed
    loaded,     \* ids whose load succeeded
    calls,      \* session ids the callback was invoked with, in order
    deleted,    \* ids whose delete statement executed without error, in order
    touched,    \* ids the application saved or destroyed since the select
    cbNilSeen,  \* the callback was nil at some moment of the cycle
    \* ---- history over the life of a goroutine (not program state)
    asked,      \* the interval argument StartCleanup was called with
    elapsed,    \* minutes the ticker has run, counted up to its first tick
    acks        \* sends on done that have completed

storeVars == <<rows, callback, clock>>
schedVars == <<maxLoops, requested, loopPc, stopPc, interval, tickerOn, untilTick, tickReady>>
sweepVars == <<result, ids, session, cbSeen, i, err>>
histVars  == <<selected, scanFailed, loaded, calls, deleted, touched, cbNilSeen>>
lifeVars  == <<asked, elapsed, acks>>
vars == <<storeVars, schedVars, sweepVars, histVars, lifeVars>>

\* ----------------------------------------------------------------- helpers
Range(s) == {s[k] : k \in DOMAIN s}

Count(x, s) == Cardinality({k \in DOMAIN s : s[k] = x})

\* every order in which the database can return the rows of S
Orders(S) == {s \in [1..Cardinality(S) -> S] : \A a, b \in DOMAIN s : a # b => s[a] # s[b]}

\* the goroutine is inside deleteExpiredSessions
SweepPcs == {"select", "rows", "check", "call", "delete", "swept"}
InSweep(l) == loopPc[l] \in SweepPcs

\* ------------------------------------------------------------------- store
\* variant of IsExpired: the comparison written <= instead of <
IsExpired_Inclusive(t, now) == t <= now

\* expires_on < datetime(CURRENT_TIMESTAMP,'localtime')
IsExpired(t, now) == t < now

\* the WHERE clause of the select of line 52, evaluated by the database
ExpiredIds == {id \in DOMAIN rows : IsExpired(rows[id], clock)}

\* m.load(session, true): reads the row of the id, ignoring its expiry; fails when
\* the row is gone or its data cannot be decoded
load(id, decodable) == id \in DOMAIN rows /\ decodable

\* m.stmtDelete.Exec(id): DELETE ... WHERE id = ?; no row with the id is no error
DeleteRow(id) == [x \in DOMAIN rows \ {id} |-> rows[x]]

\* the store's save path: insert or update the row with a new expires_on
SaveRow(id, age) == [x \in DOMAIN rows \cup {id} |-> IF x = id THEN clock + age ELSE rows[x]]

TypeOK ==
    /\ DOMAIN rows \subseteq Ids
    /\ \A id \in DOMAIN rows : rows[id] \in 0..(MaxClock + MaxAge)
    /\ callback \in Callbacks \cup {Nil}
    /\ clock \in 0..MaxClock
    /\ maxLoops \in 1..NumLoops
    /\ requested \subseteq Intervals
    /\ loopPc \in [Loops -> {"idle", "spawned", "wait", "ack", "defer", "exited", "panic"} \cup SweepPcs]
    /\ stopPc \in [Loops -> {"idle", "quit", "done", "returned"}]
    /\ interval \in [Loops -> 0..(MaxInterval + defaultInterval)]
    /\ tickerOn \in [Loops -> BOOLEAN]
    /\ tickReady \in [Loops -> BOOLEAN]
    /\ \A l \in Loops : untilTick[l] \in 0..interval[l]
    /\ \A l \in Loops : result[l] \in Seq(Ids) /\ ids[l] \in Seq(Ids)
    /\ session \in [Loops -> Ids \cup {NoSession}]
    /\ cbSeen \in [Loops -> Callbacks \cup {Nil}]
    /\ \A l \in Loops : i[l] \in 0..(NumIds + 1)
    /\ err \in [Loops -> {"nil", "selectErr", "delErr"}]
    /\ selected \in [Loops -> SUBSET Ids]
    /\ scanFailed \in [Loops -> SUBSET Ids]
    /\ loaded \in [Loops -> SUBSET Ids]
    /\ touched \in [Loops -> SUBSET Ids]
    /\ \A l \in Loops : calls[l] \in Seq(Ids) /\ deleted[l] \in Seq(Ids)
    /\ cbNilSeen \in [Loops -> BOOLEAN]
    /\ asked \in [Loops -> Intervals]
    /\ \A l \in Loops : elapsed[l] \in 0..interval[l]
    /\ acks \in [Loops -> 0..2]

\* -------------------------------------------------------------------- init
InitStore ==
    /\ rows = << >>
    /\ callback = Nil
    /\ clock = 0

InitLoops ==
    /\ loopPc = [l \in Loops |-> "idle"]
    /\ stopPc = [l \in Loops |-> "idle"]
    /\ interval = [l \in Loops |-> 0]
    /\ tickerOn = [l \in Loops |-> FALSE]
    /\ untilTick = [l \in Loops |-> 0]
    /\ tickReady = [l \in Loops |-> FALSE]
    /\ result = [l \in Loops |-> << >>]
    /\ ids = [l \in Loops |-> << >>]
    /\ session = [l \in Loops |-> NoSession]
    /\ cbSeen = [l \in Loops |-> Nil]
    /\ i = [l \in Loops |-> 0]
    /\ err = [l \in Loops |-> "nil"]
    /\ selected = [l \in Loops |-> {}]
    /\ scanFailed = [l \in Loops |-> {}]
    /\ loaded = [l \in Loops |-> {}]
    /\ calls = [l \in Loops |-> << >>]
    /\ deleted = [l \in Loops |-> << >>]
    /\ touched = [l \in Loops |-> {}]
    /\ cbNilSeen = [l \in Loops |-> FALSE]
    /\ asked = [l \in Loops |-> 0]
    /\ elapsed = [l \in Loops |-> 0]
    /\ acks = [l \in Loops |-> 0]

\* the application starts one cleanup goroutine on the store, with an interval of
\* its choice
Init ==
    /\ InitStore
    /\ InitLoops
    /\ maxLoops = 1
    /\ requested = 1..MaxInterval

\* ------------------------------------------------------------- application
\* a panic of a goroutine ends the process: nothing runs afterwards
Alive == \A l \in Loops : loopPc[l] # "panic"

\* the goroutine has run its select and not yet left the cycle
AfterSelect(l) == loopPc[l] \in {"rows", "check", "call", "delete", "swept"}

Touch(id) == [l \in Loops |-> IF AfterSelect(l) THEN touched[l] \cup {id} ELSE touched[l]]

\* the store's Save: the application creates a session or saves it again
AppSave(id, age) ==
    /\ Alive
    /\ rows' = SaveRow(id, age)
    /\ touched' = Touch(id)
    /\ UNCHANGED <<callback, clock, schedVars, sweepVars>>
    /\ UNCHANGED <<selected, scanFailed, loaded, calls, deleted, cbNilSeen>>
    /\ UNCHANGED lifeVars

\* the store's Delete: the application destroys a session
AppDestroy(id) ==
    /\ Alive
    /\ id \in DOMAIN rows
    /\ rows' = DeleteRow(id)
    /\ touched' = Touch(id)
    /\ UNCHANGED <<callback, clock, schedVars, sweepVars>>
    /\ UNCHANGED <<selected, scanFailed, loaded, calls, deleted, cbNilSeen>>
    /\ UNCHANGED lifeVars

SetExpiredSessionPreDeleteCallback(cb) ==
    /\ Alive
    /\ callback' = cb
    /\ cbNilSeen' = [l \in Loops |-> cbNilSeen[l] \/ (InSweep(l) /\ cb = Nil)]
    /\ UNCHANGED <<rows, clock, schedVars, sweepVars>>
    /\ UNCHANGED <<selected, scanFailed, loaded, calls, deleted, touched>>
    /\ UNCHANGED lifeVars

\* a minute passes: the database clock advances and every running ticker counts
\* down; a ticker that fires puts a tick into its channel unless one is waiting
AdvanceClock ==
    /\ Alive
    /\ clock' = IF clock < MaxClock THEN clock + 1 ELSE clock
    /\ untilTick' = [l \in Loops |->
            IF ~tickerOn[l] THEN untilTick[l]
            ELSE IF untilTick[l] = 1 THEN interval[l] ELSE untilTick[l] - 1]
    /\ tickReady' = [l \in Loops |-> tickReady[l] \/ (tickerOn[l] /\ untilTick[l] = 1)]
    /\ UNCHANGED <<rows, callback, maxLoops, requested, loopPc, stopPc, interval, tickerOn>>
    /\ UNCHANGED <<sweepVars, histVars>>
    /\ elapsed' = [l \in Loops |->
            IF tickerOn[l] /\ elapsed[l] < interval[l] THEN elapsed[l] + 1 ELSE elapsed[l]]
    /\ UNCHANGED <<asked, acks>>

\* --------------------------------------------------------------- scheduler
\* the ticker of the goroutine has fired at least once
Ticked(l) == interval[l] > 0 /\ elapsed[l] >= interval[l]

Started == {l \in Loops : loopPc[l] # "idle"}

\* variant of StartCleanup: the test written interval < 0, so an interval of 0 is kept
StartCleanup_NegativeOnly(l, itv) ==
    /\ Alive
    /\ loopPc[l] = "idle"
    /\ l = Cardinality(Started) + 1
    /\ l <= maxLoops
    /\ itv \in requested
    /\ interval' = [interval EXCEPT ![l] = IF itv < 0 THEN defaultInterval ELSE itv]
    /\ loopPc' = [loopPc EXCEPT ![l] = "spawned"]
    /\ UNCHANGED <<storeVars, maxLoops, requested, stopPc, tickerOn, untilTick, tickReady>>
    /\ UNCHANGED <<sweepVars, histVars>>
    /\ asked' = [asked EXCEPT ![l] = itv]
    /\ UNCHANGED <<elapsed, acks>>

StartCleanup(l, itv) ==
    /\ Alive
    /\ loopPc[l] = "idle"
    /\ l = Cardinality(Started) + 1
    /\ l <= maxLoops
    /\ itv \in requested
    /\ interval' = [interval EXCEPT ![l] = IF itv <= 0 THEN defaultInterval ELSE itv]
    /\ loopPc' = [loopPc EXCEPT ![l] = "spawned"]
    /\ UNCHANGED <<storeVars, maxLoops, requested, stopPc, tickerOn, untilTick, tickReady>>
    /\ UNCHANGED <<sweepVars, histVars>>
    /\ asked' = [asked EXCEPT ![l] = itv]
    /\ UNCHANGED <<elapsed, acks>>

\* cleanup, line 27: ticker := time.NewTicker(interval)
NewTicker(l) ==
    /\ Alive
    /\ loopPc[l] = "spawned"
    /\ tickerOn' = [tickerOn EXCEPT ![l] = TRUE]
    /\ untilTick' = [untilTick EXCEPT ![l] = interval[l]]
    /\ loopPc' = [loopPc EXCEPT ![l] = "wait"]
    /\ UNCHANGED <<storeVars, maxLoops, requested, stopPc, interval, tickReady>>
    /\ UNCHANGED <<sweepVars, histVars>>
    /\ UNCHANGED lifeVars

\* StopCleanup, line 126: the caller blocks in quit <- struct{}{}
StopCleanup(l) ==
    /\ Alive
    /\ loopPc[l] # "idle"
    /\ stopPc[l] = "idle"
    /\ stopPc' = [stopPc EXCEPT ![l] = "quit"]
    /\ UNCHANGED <<storeVars, maxLoops, requested, loopPc, interval, tickerOn, untilTick, tickReady>>
    /\ UNCHANGED <<sweepVars, histVars>>
    /\ UNCHANGED lifeVars

\* variant of RecvQuit: the goroutine returns without sending on done
RecvQuit_NoDone(l) ==
    /\ Alive
    /\ loopPc[l] = "wait"
    /\ stopPc[l] = "quit"
    /\ loopPc' = [loopPc EXCEPT ![l] = "defer"]
    /\ stopPc' = [stopPc EXCEPT ![l] = "done"]
    /\ UNCHANGED <<storeVars, maxLoops, requested, interval, tickerOn, untilTick, tickReady>>
    /\ UNCHANGED <<sweepVars, histVars>>
    /\ UNCHANGED lifeVars

\* cleanup, line 35: the select statement takes case <-quit
RecvQuit(l) ==
    /\ Alive
    /\ loopPc[l] = "wait"
    /\ stopPc[l] = "quit"
    /\ loopPc' = [loopPc EXCEPT ![l] = "ack"]
    /\ stopPc' = [stopPc EXCEPT ![l] = "done"]
    /\ UNCHANGED <<storeVars, maxLoops, requested, interval, tickerOn, untilTick, tickReady>>
    /\ UNCHANGED <<sweepVars, histVars>>
    /\ UNCHANGED lifeVars

\* cleanup, line 39: the select statement takes case <-ticker.C
RecvTick(l) ==
    /\ Alive
    /\ loopPc[l] = "wait"
    /\ tickReady[l]
    /\ tickReady' = [tickReady EXCEPT ![l] = FALSE]
    /\ loopPc' = [loopPc EXCEPT ![l] = "select"]
    /\ UNCHANGED <<storeVars, maxLoops, requested, stopPc, interval, tickerOn, untilTick>>
    /\ UNCHANGED <<sweepVars, histVars>>
    /\ UNCHANGED lifeVars

\* variant of SendDone: the return of line 38 is missing, so the loop goes on
SendDone_NoReturn(l) ==
    /\ Alive
    /\ loopPc[l] = "ack"
    /\ stopPc[l] = "done"
    /\ loopPc' = [loopPc EXCEPT ![l] = "wait"]
    /\ stopPc' = [stopPc EXCEPT ![l] = "returned"]
    /\ UNCHANGED <<storeVars, maxLoops, requested, interval, tickerOn, untilTick, tickReady>>
    /\ UNCHANGED <<sweepVars, histVars>>
    /\ acks' = [acks EXCEPT ![l] = acks[l] + 1]
    /\ UNCHANGED <<asked, elapsed>>

\* cleanup, line 37, meets StopCleanup, line 127: done <- struct{}{} / <-done
SendDone(l) ==
    /\ Alive
    /\ loopPc[l] = "ack"
    /\ stopPc[l] = "done"
    /\ loopPc' = [loopPc EXCEPT ![l] = "defer"]
    /\ stopPc' = [stopPc EXCEPT ![l] = "returned"]
    /\ UNCHANGED <<storeVars, maxLoops, requested, interval, tickerOn, untilTick, tickReady>>
    /\ UNCHANGED <<sweepVars, histVars>>
    /\ acks' = [acks EXCEPT ![l] = acks[l] + 1]
    /\ UNCHANGED <<asked, elapsed>>

\* variant of TickerStop: the deferred ticker.Stop() is missing
TickerStop_NoDefer(l) ==
    /\ Alive
    /\ loopPc[l] = "defer"
    /\ loopPc' = [loopPc EXCEPT ![l] = "exited"]
    /\ UNCHANGED <<storeVars, maxLoops, requested, stopPc, interval, tickerOn, untilTick, tickReady>>
    /\ UNCHANGED <<sweepVars, histVars>>
    /\ UNCHANGED lifeVars

\* cleanup, lines 29-31 and 38: return runs the deferred ticker.Stop()
TickerStop(l) ==
    /\ Alive
    /\ loopPc[l] = "defer"
    /\ tickerOn' = [tickerOn EXCEPT ![l] = FALSE]
    /\ loopPc' = [loopPc EXCEPT ![l] = "exited"]
    /\ UNCHANGED <<storeVars, maxLoops, requested, stopPc, interval, untilTick, tickReady>>
    /\ UNCHANGED <<sweepVars, histVars>>
    /\ UNCHANGED lifeVars

\* ------------------------------------------------------------------- sweep
\* the locals and the history of a cycle, as they are when no cycle runs
ClearCycle(l) ==
    /\ result' = [result EXCEPT ![l] = << >>]
    /\ ids' = [ids EXCEPT ![l] = << >>]
    /\ session' = [session EXCEPT ![l] = NoSession]
    /\ cbSeen' = [cbSeen EXCEPT ![l] = Nil]
    /\ i' = [i EXCEPT ![l] = 0]
    /\ selected' = [selected EXCEPT ![l] = {}]
    /\ scanFailed' = [scanFailed EXCEPT ![l] = {}]
    /\ loaded' = [loaded EXCEPT ![l] = {}]
    /\ calls' = [calls EXCEPT ![l] = << >>]
    /\ deleted' = [deleted EXCEPT ![l] = << >>]
    /\ touched' = [touched EXCEPT ![l] = {}]
    /\ cbNilSeen' = [cbNilSeen EXCEPT ![l] = FALSE]

\* variant of SelectFail: the return after the failed Prepare or Query is missing,
\* so the error is only logged and the rows are processed
SelectFail_NoReturn(l) ==
    /\ Alive
    /\ loopPc[l] = "select"
    /\ \E order \in Orders(ExpiredIds) : result' = [result EXCEPT ![l] = order]
    /\ selected' = [selected EXCEPT ![l] = {id \in DOMAIN rows : rows[id] < clock}]
    /\ cbNilSeen' = [cbNilSeen EXCEPT ![l] = (callback = Nil)]
    /\ err' = [err EXCEPT ![l] = "selectErr"]
    /\ loopPc' = [loopPc EXCEPT ![l] = "rows"]
    /\ UNCHANGED <<storeVars, maxLoops, requested, stopPc, interval, tickerOn, untilTick, tickReady>>
    /\ UNCHANGED <<ids, session, cbSeen, i>>
    /\ UNCHANGED <<scanFailed, loaded, calls, deleted, touched>>
    /\ UNCHANGED lifeVars

\* getExpiredSessionsIdsAndCallCallbacks, lines 52-62: Prepare or Query fails,
\* and deleteExpiredSessions, lines 109-111, returns the error
SelectFail(l) ==
    /\ Alive
    /\ loopPc[l] = "select"
    /\ err' = [err EXCEPT ![l] = "selectErr"]
    /\ loopPc' = [loopPc EXCEPT ![l] = "swept"]
    /\ UNCHANGED <<storeVars, maxLoops, requested, stopPc, interval, tickerOn, untilTick, tickReady>>
    /\ UNCHANGED <<result, ids, session, cbSeen, i, histVars>>
    /\ UNCHANGED lifeVars

\* lines 52-66: the select runs; the database returns the expired ids in some order
SelectExpired(l) ==
    /\ Alive
    /\ loopPc[l] = "select"
    /\ \E order \in Orders(ExpiredIds) : result' = [result EXCEPT ![l] = order]
    /\ selected' = [selected EXCEPT ![l] = {id \in DOMAIN rows : rows[id] < clock}]
    /\ cbNilSeen' = [cbNilSeen EXCEPT ![l] = (callback = Nil)]
    /\ loopPc' = [loopPc EXCEPT ![l] = "rows"]
    /\ UNCHANGED <<storeVars, maxLoops, requested, stopPc, interval, tickerOn, untilTick, tickReady>>
    /\ UNCHANGED <<ids, session, cbSeen, i, err>>
    /\ UNCHANGED <<scanFailed, loaded, calls, deleted, touched>>
    /\ UNCHANGED lifeVars

\* variant of ScanFail: the failed Scan is returned as the error of the sweep
ScanFail_Abort(l) ==
    /\ Alive
    /\ loopPc[l] = "rows"
    /\ result[l] # << >>
    /\ scanFailed' = [scanFailed EXCEPT ![l] = scanFailed[l] \cup {Head(result[l])}]
    /\ err' = [err EXCEPT ![l] = "selectErr"]
    /\ loopPc' = [loopPc EXCEPT ![l] = "swept"]
    /\ UNCHANGED <<storeVars, maxLoops, requested, stopPc, interval, tickerOn, untilTick, tickReady>>
    /\ UNCHANGED <<result, ids, session, cbSeen, i>>
    /\ UNCHANGED <<selected, loaded, calls, deleted, touched, cbNilSeen>>
    /\ UNCHANGED lifeVars

\* lines 68-75: Next returns a row whose Scan fails; the row is skipped
ScanFail(l) ==
    /\ Alive
    /\ loopPc[l] = "rows"
    /\ result[l] # << >>
    /\ result' = [result EXCEPT ![l] = Tail(result[l])]
    /\ scanFailed' = [scanFailed EXCEPT ![l] = scanFailed[l] \cup {Head(result[l])}]
    /\ UNCHANGED <<storeVars, schedVars, ids, session, cbSeen, i, err>>
    /\ UNCHANGED <<selected, loaded, calls, deleted, touched, cbNilSeen>>
    /\ UNCHANGED lifeVars

\* variant of LoadFail: the continue of line 94 is missing, so the session that was
\* not loaded goes on to the callback
LoadFail_NoContinue(l) ==
    /\ Alive
    /\ loopPc[l] = "rows"
    /\ result[l] # << >>
    /\ \E decodable \in BOOLEAN : ~load(Head(result[l]), decodable)
    /\ result' = [result EXCEPT ![l] = Tail(result[l])]
    /\ ids' = [ids EXCEPT ![l] = Append(ids[l], Head(result[l]))]
    /\ session' = [session EXCEPT ![l] = Head(result[l])]
    /\ loopPc' = [loopPc EXCEPT ![l] = "check"]
    /\ UNCHANGED <<storeVars, maxLoops, requested, stopPc, interval, tickerOn, untilTick, tickReady>>
    /\ UNCHANGED <<cbSeen, i, err, histVars>>
    /\ UNCHANGED lifeVars

\* variant of LoadFail: a failed load is returned as the error of the sweep
LoadFail_Abort(l) ==
    /\ Alive
    /\ loopPc[l] = "rows"
    /\ result[l] # << >>
    /\ \E decodable \in BOOLEAN : ~load(Head(result[l]), decodable)
    /\ ids' = [ids EXCEPT ![l] = Append(ids[l], Head(result[l]))]
    /\ err' = [err EXCEPT ![l] = "selectErr"]
    /\ loopPc' = [loopPc EXCEPT ![l] = "swept"]
    /\ UNCHANGED <<storeVars, maxLoops, requested, stopPc, interval, tickerOn, untilTick, tickReady>>
    /\ UNCHANGED <<result, session, cbSeen, i, histVars>>
    /\ UNCHANGED lifeVars

\* lines 68-95: the id is scanned and appended, and the load of its session fails
LoadFail(l) ==
    /\ Alive
    /\ loopPc[l] = "rows"
    /\ result[l] # << >>
    /\ \E decodable \in BOOLEAN : ~load(Head(result[l]), decodable)
    /\ result' = [result EXCEPT ![l] = Tail(result[l])]
    /\ ids' = [ids EXCEPT ![l] = Append(ids[l], Head(result[l]))]
    /\ UNCHANGED <<storeVars, schedVars, session, cbSeen, i, err, histVars>>
    /\ UNCHANGED lifeVars

\* variant of LoadOk: the row is deleted inside the loop, before the callback runs
LoadOk_DeleteFirst(l) ==
    /\ Alive
    /\ loopPc[l] = "rows"
    /\ result[l] # << >>
    /\ load(Head(result[l]), TRUE)
    /\ result' = [result EXCEPT ![l] = Tail(result[l])]
    /\ ids' = [ids EXCEPT ![l] = Append(ids[l], Head(result[l]))]
    /\ session' = [session EXCEPT ![l] = Head(result[l])]
    /\ loaded' = [loaded EXCEPT ![l] = loaded[l] \cup {Head(result[l])}]
    /\ rows' = DeleteRow(Head(result[l]))
    /\ deleted' = [deleted EXCEPT ![l] = Append(deleted[l], Head(result[l]))]
    /\ loopPc' = [loopPc EXCEPT ![l] = "check"]
    /\ UNCHANGED <<callback, clock, maxLoops, requested, stopPc, interval, tickerOn, untilTick, tickReady>>
    /\ UNCHANGED <<cbSeen, i, err>>
    /\ UNCHANGED <<selected, scanFailed, calls, touched, cbNilSeen>>
    /\ UNCHANGED lifeVars

\* lines 68-96: the id is scanned and appended, and its session is loaded
LoadOk(l) ==
    /\ Alive
    /\ loopPc[l] = "rows"
    /\ result[l] # << >>
    /\ load(Head(result[l]), TRUE)
    /\ result' = [result EXCEPT ![l] = Tail(result[l])]
    /\ ids' = [ids EXCEPT ![l] = Append(ids[l], Head(result[l]))]
    /\ session' = [session EXCEPT ![l] = Head(result[l])]
    /\ loaded' = [loaded EXCEPT ![l] = loaded[l] \cup {Head(result[l])}]
    /\ loopPc' = [loopPc EXCEPT ![l] = "check"]
    /\ UNCHANGED <<storeVars, maxLoops, requested, stopPc, interval, tickerOn, untilTick, tickReady>>
    /\ UNCHANGED <<cbSeen, i, err>>
    /\ UNCHANGED <<selected, scanFailed, calls, deleted, touched, cbNilSeen>>
    /\ UNCHANGED lifeVars

\* line 98: if m.expiredSessionPreDeleteCallback != nil
CheckCallback(l) ==
    /\ Alive
    /\ loopPc[l] = "check"
    /\ cbSeen' = [cbSeen EXCEPT ![l] = callback]
    /\ session' = [session EXCEPT ![l] = IF callback # Nil THEN session[l] ELSE NoSession]
    /\ loopPc' = [loopPc EXCEPT ![l] = IF callback # Nil THEN "call" ELSE "rows"]
    /\ UNCHANGED <<storeVars, maxLoops, requested, stopPc, interval, tickerOn, untilTick, tickReady>>
    /\ UNCHANGED <<result, ids, i, err, histVars>>
    /\ UNCHANGED lifeVars

\* the func value line 99 calls: the field is read without synchronisation, so
\* the call uses the value the nil check read or the value the field holds now
CalledValues(l) == {cbSeen[l], callback}

\* line 99: m.expiredSessionPreDeleteCallback(session), the callback returns
CallCallback(l) ==
    /\ Alive
    /\ loopPc[l] = "call"
    /\ \E f \in CalledValues(l) :
        /\ f # Nil
        /\ calls' = [calls EXCEPT ![l] = Append(calls[l], session[l])]
    /\ session' = [session EXCEPT ![l] = NoSession]
    /\ cbSeen' = [cbSeen EXCEPT ![l] = Nil]
    /\ loopPc' = [loopPc EXCEPT ![l] = "rows"]
    /\ UNCHANGED <<storeVars, maxLoops, requested, stopPc, interval, tickerOn, untilTick, tickReady>>
    /\ UNCHANGED <<result, ids, i, err>>
    /\ UNCHANGED <<selected, scanFailed, loaded, deleted, touched, cbNilSeen>>
    /\ UNCHANGED lifeVars

\* line 99 calls a nil func value: the goroutine panics and the process dies
CallNil(l) ==
    /\ Alive
    /\ loopPc[l] = "call"
    /\ Nil \in CalledValues(l)
    /\ loopPc' = [loopPc EXCEPT ![l] = "panic"]
    /\ UNCHANGED <<storeVars, maxLoops, requested, stopPc, interval, tickerOn, untilTick, tickReady>>
    /\ UNCHANGED <<sweepVars, histVars>>
    /\ UNCHANGED lifeVars

\* lines 68-69, 103, 108-113: Next returns false; the ids are handed to the delete loop
RowsEnd(l) ==
    /\ Alive
    /\ loopPc[l] = "rows"
    /\ result[l] = << >>
    /\ i' = [i EXCEPT ![l] = 1]
    /\ loopPc' = [loopPc EXCEPT ![l] = "delete"]
    /\ UNCHANGED <<storeVars, maxLoops, requested, stopPc, interval, tickerOn, untilTick, tickReady>>
    /\ UNCHANGED <<result, ids, session, cbSeen, err, histVars>>
    /\ UNCHANGED lifeVars

\* variant of DeleteOk: the loop moves on without the row of the id being deleted
DeleteOk_SkipsRow(l) ==
    /\ Alive
    /\ loopPc[l] = "delete"
    /\ i[l] <= Len(ids[l])
    /\ deleted' = [deleted EXCEPT ![l] = Append(deleted[l], ids[l][i[l]])]
    /\ i' = [i EXCEPT ![l] = i[l] + 1]
    /\ UNCHANGED <<storeVars, schedVars, result, ids, session, cbSeen, err>>
    /\ UNCHANGED <<selected, scanFailed, loaded, calls, touched, cbNilSeen>>
    /\ UNCHANGED lifeVars

\* lines 113-119: the delete of expiredSessionsIds[i] executes
DeleteOk(l) ==
    /\ Alive
    /\ loopPc[l] = "delete"
    /\ i[l] <= Len(ids[l])
    /\ rows' = DeleteRow(ids[l][i[l]])
    /\ deleted' = [deleted EXCEPT ![l] = Append(deleted[l], ids[l][i[l]])]
    /\ i' = [i EXCEPT ![l] = i[l] + 1]
    /\ UNCHANGED <<callback, clock, schedVars, result, ids, session, cbSeen, err>>
    /\ UNCHANGED <<selected, scanFailed, loaded, calls, touched, cbNilSeen>>
    /\ UNCHANGED lifeVars

\* lines 115-118: the delete of expiredSessionsIds[i] fails; return delErr
DeleteFail(l) ==
    /\ Alive
    /\ loopPc[l] = "delete"
    /\ i[l] <= Len(ids[l])
    /\ err' = [err EXCEPT ![l] = "delErr"]
    /\ loopPc' = [loopPc EXCEPT ![l] = "swept"]
    /\ UNCHANGED <<storeVars, maxLoops, requested, stopPc, interval, tickerOn, untilTick, tickReady>>
    /\ UNCHANGED <<result, ids, session, cbSeen, i, histVars>>
    /\ UNCHANGED lifeVars

\* variant of DeleteEnd: the loop condition written i < len - 1, so the loop can
\* end before the last id
DeleteEnd_OffByOne(l) ==
    /\ Alive
    /\ loopPc[l] = "delete"
    /\ i[l] >= Len(ids[l])
    /\ err' = [err EXCEPT ![l] = "nil"]
    /\ loopPc' = [loopPc EXCEPT ![l] = "swept"]
    /\ UNCHANGED <<storeVars, maxLoops, requested, stopPc, interval, tickerOn, untilTick, tickReady>>
    /\ UNCHANGED <<result, ids, session, cbSeen, i, histVars>>
    /\ UNCHANGED lifeVars

\* lines 113, 121: the delete loop is through; return nil
DeleteEnd(l) ==
    /\ Alive
    /\ loopPc[l] = "delete"
    /\ i[l] > Len(ids[l])
    /\ err' = [err EXCEPT ![l] = "nil"]
    /\ loopPc' = [loopPc EXCEPT ![l] = "swept"]
    /\ UNCHANGED <<storeVars, maxLoops, requested, stopPc, interval, tickerOn, untilTick, tickReady>>
    /\ UNCHANGED <<result, ids, session, cbSeen, i, histVars>>
    /\ UNCHANGED lifeVars

\* variant of LogErr: a sweep that returned an error ends the goroutine
LogErr_ReturnOnError(l) ==
    /\ Alive
    /\ loopPc[l] = "swept"
    /\ loopPc' = [loopPc EXCEPT ![l] = IF err[l] = "nil" THEN "wait" ELSE "defer"]
    /\ err' = [err EXCEPT ![l] = "nil"]
    /\ ClearCycle(l)
    /\ UNCHANGED <<storeVars, maxLoops, requested, stopPc, interval, tickerOn, untilTick, tickReady>>
    /\ UNCHANGED lifeVars

\* cleanup, lines 41-45: the error, if any, is logged; back to the select statement
LogErr(l) ==
    /\ Alive
    /\ loopPc[l] = "swept"
    /\ err' = [err EXCEPT ![l] = "nil"]
    /\ loopPc' = [loopPc EXCEPT ![l] = "wait"]
    /\ ClearCycle(l)
    /\ UNCHANGED <<storeVars, maxLoops, requested, stopPc, interval, tickerOn, untilTick, tickReady>>
    /\ UNCHANGED lifeVars

\* ------------------------------------------------------------ specification
Next ==
    \/ \E id \in Ids, age \in 0..MaxAge : AppSave(id, age)
    \/ \E id \in Ids : AppDestroy(id)
    \/ \E cb \in Callbacks \cup {Nil} : SetExpiredSessionPreDeleteCallback(cb)
    \/ AdvanceClock
    \/ \E l \in Loops, itv \in Intervals : StartCleanup(l, itv)
    \/ \E l \in Loops : NewTicker(l)
    \/ \E l \in Loops : StopCleanup(l)
    \/ \E l \in Loops : RecvQuit(l)
    \/ \E l \in Loops : RecvTick(l)
    \/ \E l \in Loops : SendDone(l)
    \/ \E l \in Loops : TickerStop(l)
    \/ \E l \in Loops : SelectFail(l)
    \/ \E l \in Loops : SelectExpired(l)
    \/ \E l \in Loops : ScanFail(l)
    \/ \E l \in Loops : LoadFail(l)
    \/ \E l \in Loops : LoadOk(l)
    \/ \E l \in Loops : CheckCallback(l)
    \/ \E l \in Loops : CallCallback(l)
    \/ \E l \in Loops : CallNil(l)
    \/ \E l \in Loops : RowsEnd(l)
    \/ \E l \in Loops : DeleteOk(l)
    \/ \E l \in Loops : DeleteFail(l)
    \/ \E l \in Loops : DeleteEnd(l)
    \/ \E l \in Loops : LogErr(l)

Spec == Init /\ [][Next]_vars

\* ------------------------------------------------------------------ claims
\* the cycle of goroutine l has returned nil / has returned at all
SweptNil(l) == loopPc[l] = "swept" /\ err[l] = "nil"
\* the load-and-notify loop of the cycle is through
Notified(l) == loopPc[l] \in {"delete", "swept"}
\* ids that were collected and whose load failed
LoadFailed(l) == Range(ids[l]) \ loaded[l]

\* C1 (as stated): every row that was expired when the sweep ran its select is
\* gone once the cycle has returned nil (even leaving aside the rows the
\* application saved or destroyed during the cycle).
C1_Orig ==
    \A l \in Loops : SweptNil(l) =>
        \A id \in selected[l] \ touched[l] : id \notin DOMAIN rows

\* C1 (amended): every row that was expired when the sweep ran its select and
\* whose id was scanned without error is gone once the cycle has returned nil,
\* unless the application saved it again during the cycle.
C1_ExpiredScannedRowsGone ==
    \A l \in Loops : SweptNil(l) =>
        /\ \A id \in selected[l] \ scanFailed[l] : id \in Range(deleted[l])
        /\ \A id \in (selected[l] \ scanFailed[l]) \ touched[l] : id \notin DOMAIN rows

C1_Witness ==
    \E l \in Loops :
        /\ SweptNil(l)
        /\ Cardinality(selected[l]) = NumIds
        /\ scanFailed[l] = {} /\ touched[l] = {}
        /\ DOMAIN rows = {}

\* C2 (as stated): whenever a sweep deletes a row, the row is expired at the moment
\* the delete executes, whatever the application did since the select.
C2_Orig ==
    [][\A l \in Loops : DeleteOk(l) =>
        (ids[l][i[l]] \in DOMAIN rows => rows[ids[l][i[l]]] < clock)]_vars

\* C2 (amended): a sweep only deletes ids of rows that were expired when its own
\* select ran; it collects no other id.
C2_DeletesOnlySelected ==
    \A l \in Loops :
        /\ Range(ids[l]) \subseteq selected[l]
        /\ Range(deleted[l]) \subseteq selected[l]

C2_Witness ==
    \E l \in Loops : \E id \in Range(deleted[l]) :
        /\ id \in touched[l]
        /\ DOMAIN rows # {}

\* C3: with a callback registered throughout the cycle, when the load-and-notify
\* loop is through the callback has been invoked exactly once for every session
\* whose load succeeded and for no other; and at any moment every invocation was
\* with the id of a row the select returned and the cycle collected for deletion.
C3_CallbackOncePerLoaded ==
    \A l \in Loops :
        /\ Range(calls[l]) \subseteq Range(ids[l]) \cap selected[l]
        /\ \A id \in Ids : Count(id, calls[l]) <= 1
        /\ (Notified(l) /\ ~cbNilSeen[l]) =>
              \A id \in Ids : Count(id, calls[l]) = IF id \in loaded[l] THEN 1 ELSE 0

C3_Witness ==
    \E l \in Loops :
        /\ Notified(l) /\ ~cbNilSeen[l]
        /\ loaded[l] # {}
        /\ LoadFailed(l) # {}
        /\ Len(calls[l]) = 1

\* C4: whenever the callback is invoked for a session, the sweep has not yet
\* executed the delete of that session's row (nor any delete of the cycle).
C4_CallbackBeforeDelete ==
    [][\A l \in Loops : Len(calls'[l]) > Len(calls[l]) =>
        /\ session[l] \notin Range(deleted[l])
        /\ deleted[l] = << >>
        /\ i[l] = 0]_vars

C4_Witness ==
    \E l \in Loops :
        /\ calls[l] # << >>
        /\ Range(calls[l]) \subseteq Range(deleted[l])
        /\ Range(calls[l]) \cap DOMAIN rows = {}

\* C5: a session whose load failed gets no callback; the failure is not the
\* sweep's error and does not end the loop over the rows (every row the select
\* returned is still scanned, and every loaded session notified when a callback
\* is registered); the id stays in the delete list and, when the cycle returns
\* nil, its row has been deleted.
C5_LoadFailureSkipsCallbackOnly ==
    \A l \in Loops :
        /\ LoadFailed(l) \cap Range(calls[l]) = {}
        /\ (loopPc[l] = "swept" /\ LoadFailed(l) # {}) => err[l] # "selectErr"
        /\ (Notified(l) /\ LoadFailed(l) # {}) =>
              /\ result[l] = << >>
              /\ Range(ids[l]) \cup scanFailed[l] = selected[l]
              /\ ~cbNilSeen[l] => loaded[l] \subseteq Range(calls[l])
        /\ SweptNil(l) =>
              /\ LoadFailed(l) \subseteq Range(deleted[l])
              /\ (LoadFailed(l) \ touched[l]) \cap DOMAIN rows = {}

C5_Witness ==
    \E l \in Loops :
        /\ SweptNil(l)
        /\ ~cbNilSeen[l]
        /\ touched[l] = {}
        /\ Len(ids[l]) = NumIds
        /\ ids[l][1] \in LoadFailed(l)
        /\ calls[l] = <<ids[l][NumIds]>>

\* C6: when the delete of the k-th collected id fails the cycle returns the error
\* at once: the deletes of the ids before k have executed and their rows are gone,
\* no delete has executed for the k-th id or any id after it, and their rows are
\* still in the store (the rows the application itself touched aside).
C6_DeleteErrorAborts ==
    \A l \in Loops : (loopPc[l] = "swept" /\ err[l] = "delErr") =>
        /\ i[l] \in 1..Len(ids[l])
        /\ deleted[l] = SubSeq(ids[l], 1, i[l] - 1)
        /\ \A j \in 1..(i[l] - 1) : ids[l][j] \notin touched[l] => ids[l][j] \notin DOMAIN rows
        /\ \A j \in i[l]..Len(ids[l]) : ids[l][j] \notin touched[l] => ids[l][j] \in DOMAIN rows

C6_Witness ==
    \E l \in Loops :
        /\ loopPc[l] = "swept" /\ err[l] = "delErr"
        /\ Len(ids[l]) = NumIds
        /\ i[l] = NumIds
        /\ touched[l] = {}

\* C8: once StopCleanup has returned, the goroutine it stopped is past its loop:
\* it is in no sweep and at no point from which it could start one.
C8_StopIsJoin ==
    \A l \in Loops : stopPc[l] = "returned" => loopPc[l] \in {"defer", "exited"}

C8_Witness ==
    \E l \in Loops :
        /\ stopPc[l] = "returned"
        /\ loopPc[l] = "exited"
        /\ tickReady[l]
        /\ ExpiredIds # {}

\* C10 (as stated): when the loop waits with a quit offered and a tick ready, it
\* takes the quit and not the tick.
C10_Orig ==
    [][\A l \in Loops :
        (loopPc[l] = "wait" /\ stopPc[l] = "quit" /\ tickReady[l]) => loopPc'[l] # "select"]_vars

\* ---------------------------------------------------------------- fairness
\* the steps of cleanup goroutine l
Goroutine(l) ==
    \/ NewTicker(l) \/ RecvQuit(l) \/ RecvTick(l) \/ SendDone(l) \/ TickerStop(l)
    \/ SelectFail(l) \/ SelectExpired(l) \/ ScanFail(l) \/ LoadFail(l) \/ LoadOk(l)
    \/ CheckCallback(l) \/ CallCallback(l) \/ CallNil(l) \/ RowsEnd(l)
    \/ DeleteOk(l) \/ DeleteFail(l) \/ DeleteEnd(l) \/ LogErr(l)

\* The Go scheduler runs a goroutine that can take a step, database calls and
\* callbacks return, and time passes; the select statement picks among its ready
\* cases at random, so a case that is ready again and again is taken eventually.
FairSpec ==
    /\ Spec
    /\ WF_vars(AdvanceClock)
    /\ \A l \in Loops : WF_vars(Goroutine(l))
    /\ \A l \in Loops : SF_vars(RecvQuit(l))

\* the process has not died and the goroutine has not been asked to stop
Running(l) == loopPc[l] \notin {"idle", "panic"} /\ stopPc[l] = "idle"

\* a select, Scan or delete of a sweep fails
FailStep == \E l \in Loops : SelectFail(l) \/ ScanFail(l) \/ DeleteFail(l)

\* a delete of a sweep fails
DeleteFailStep == \E l \in Loops : DeleteFail(l)

\* every row that is expired when the select runs is returned by the select,
\* whether or not an earlier cycle collected it and left it undeleted
C7_Reselected ==
    \A l \in Loops : AfterSelect(l) =>
        selected[l] \subseteq Range(result[l]) \cup Range(ids[l]) \cup scanFailed[l]

\* a cycle in which the select, every Scan and every delete succeeded leaves no
\* row that was expired at its select
C7_CleanCycleDeletesAll ==
    \A l \in Loops : (SweptNil(l) /\ scanFailed[l] = {}) =>
        (selected[l] \ touched[l]) \cap DOMAIN rows = {}

\* the delete of an id whose row is gone changes nothing and the loop goes on
C7_DeleteOfGoneRow ==
    \A l \in Loops :
        (DeleteOk(l) /\ ids[l][i[l]] \notin DOMAIN rows) => (rows' = rows /\ loopPc'[l] = "delete")

\* a row stays expired until it is deleted or saved again
StaysExpired(id) == id \in DOMAIN rows /\ rows[id] < clock

\* C7 (as stated): if the deletes eventually stop failing then, while the
\* goroutine keeps running, every expired row is eventually deleted (or saved
\* again by the application).
C7_Orig ==
    (<>[][~DeleteFailStep]_vars) =>
        \A id \in Ids : (Running(1) /\ StaysExpired(id)) ~> (~StaysExpired(id) \/ ~Running(1))

\* C7 (amended): rows an aborted cycle left undeleted are selected again by the
\* next sweep if still expired, and are gone after the first later cycle in which
\* the select, every Scan and every delete succeed; deleting an id whose row is
\* gone is a no-op; and if the select, Scan and delete failures eventually stop,
\* then while the goroutine keeps running every expired row eventually stops
\* being an expired row of the store (it is deleted, or the application saves it
\* again).
C7_RetryUntilDeleted ==
    /\ []C7_Reselected
    /\ []C7_CleanCycleDeletesAll
    /\ [][C7_DeleteOfGoneRow]_vars
    /\ (<>[][~FailStep]_vars) =>
          \A id \in Ids : (Running(1) /\ StaysExpired(id)) ~> (~StaysExpired(id) \/ ~Running(1))

\* a cycle that follows an aborted one has deleted every row that was left
C7_Witness ==
    \E l \in Loops :
        /\ SweptNil(l)
        /\ Len(deleted[l]) = NumIds
        /\ scanFailed[l] = {} /\ touched[l] = {}
        /\ clock = MaxClock
        /\ DOMAIN rows = {}
        /\ stopPc[l] = "idle"

\* C9: a StopCleanup call that is blocked sending quit eventually returns, unless
\* a sweep never completes because the process dies in it (a nil callback call).
C9_StopReturns ==
    \A l \in Loops : (stopPc[l] = "quit") ~> (stopPc[l] = "returned" \/ ~Alive)

C9_Witness ==
    \E l \in Loops :
        /\ stopPc[l] = "quit"
        /\ loopPc[l] = "delete"
        /\ tickReady[l]

\* ------------------------------------------------------ ticks and intervals
\* a step in which goroutine l starts a sweep
SweepStart(l) == loopPc[l] # "select" /\ loopPc'[l] = "select"

\* C11 (as stated): no sweep runs before the first tick of the ticker has fired;
\* every sweep is started by receiving one tick from ticker.C; and if StopCleanup
\* is called before the first tick, no sweep ever runs.
C11_Orig ==
    /\ [](\A l \in Loops : InSweep(l) => Ticked(l))
    /\ [][\A l \in Loops : SweepStart(l) => (tickReady[l] /\ ~tickReady'[l])]_vars
    /\ \A l \in Loops : []((stopPc[l] # "idle" /\ ~Ticked(l)) => []~InSweep(l))

\* the application starts one cleanup goroutine with any interval, zero and
\* negative ones included
AnyIntervalInit ==
    /\ InitStore
    /\ InitLoops
    /\ maxLoops = 1
    /\ requested = Intervals

AnyIntervalSpec == AnyIntervalInit /\ [][Next]_vars

\* C12: the ticker runs with the default interval of 5 minutes when the interval
\* handed to StartCleanup is <= 0 and with that interval itself when it is > 0;
\* so a sweep of a goroutine started with an interval <= 0 runs only after the
\* ticker has run for 5 minutes.
C12_DefaultInterval ==
    \A l \in Loops : loopPc[l] # "idle" =>
        /\ asked[l] <= 0 => interval[l] = 5 * Minute
        /\ asked[l] > 0 => interval[l] = asked[l]
        /\ tickerOn[l] => untilTick[l] \in 1..interval[l]
        /\ InSweep(l) => elapsed[l] >= interval[l]
        /\ (InSweep(l) /\ asked[l] <= 0) => elapsed[l] >= 5 * Minute

C12_Witness ==
    \E l \in Loops :
        /\ asked[l] = 0
        /\ loopPc[l] = "delete"
        /\ elapsed[l] = 5 * Minute

\* ------------------------------------------------------- errors of a sweep
\* the goroutine is past its loop: it has taken the quit case
LoopLeft(l) == loopPc[l] \in {"ack", "defer", "exited"}

\* a sweep that has returned an error is followed by the select statement, with
\* the ticker still running
C13_BackToSelect ==
    \A l \in Loops :
        (loopPc[l] = "swept" /\ err[l] # "nil" /\ loopPc'[l] # "swept") =>
            (loopPc'[l] = "wait" /\ tickerOn'[l] /\ UNCHANGED <<rows, stopPc, acks>>)

\* the goroutine leaves its loop only from the select statement, by the quit case
C13_OnlyQuitLeaves ==
    \A l \in Loops :
        (LoopLeft(l)' /\ ~LoopLeft(l)) =>
            (loopPc[l] = "wait" /\ stopPc[l] = "quit" /\ stopPc'[l] = "done")

\* C13: a sweep that returns an error (of the select or of a delete) does not end
\* the loop: nothing reaches the application, the goroutine goes back to its
\* select statement with the ticker running and starts a sweep again on a later
\* tick unless StopCleanup is called; the goroutine leaves the loop only by the
\* quit case.
C13_ErrorKeepsLoop ==
    /\ [][C13_BackToSelect]_vars
    /\ [][C13_OnlyQuitLeaves]_vars
    /\ \A l \in Loops :
          (loopPc[l] = "swept" /\ err[l] # "nil") ~> (loopPc[l] = "select" \/ stopPc[l] # "idle")

C13_Witness ==
    \E l \in Loops :
        /\ loopPc[l] = "swept" /\ err[l] = "delErr"
        /\ stopPc[l] = "idle"
        /\ tickReady[l]
        /\ ExpiredIds # {}

\* ------------------------------------------------- several cleanup goroutines
\* the application calls StartCleanup once per goroutine that can exist; the
\* sessions were saved before and expire at once, and a callback is registered
SeveralStartsInit ==
    /\ rows = [id \in Ids |-> 0]
    /\ callback \in Callbacks
    /\ clock = 0
    /\ InitLoops
    /\ maxLoops = NumLoops
    /\ requested = 1..MaxInterval

\* the scheduler and its sweeps, the application only starting and stopping them
SchedulerNext ==
    \/ AdvanceClock
    \/ \E l \in Loops, itv \in Intervals : StartCleanup(l, itv)
    \/ \E l \in Loops : NewTicker(l)
    \/ \E l \in Loops : StopCleanup(l)
    \/ \E l \in Loops : RecvQuit(l)
    \/ \E l \in Loops : RecvTick(l)
    \/ \E l \in Loops : SendDone(l)
    \/ \E l \in Loops : TickerStop(l)
    \/ \E l \in Loops : SelectFail(l)
    \/ \E l \in Loops : SelectExpired(l)
    \/ \E l \in Loops : ScanFail(l)
    \/ \E l \in Loops : LoadFail(l)
    \/ \E l \in Loops : LoadOk(l)
    \/ \E l \in Loops : CheckCallback(l)
    \/ \E l \in Loops : CallCallback(l)
    \/ \E l \in Loops : RowsEnd(l)
    \/ \E l \in Loops : DeleteOk(l)
    \/ \E l \in Loops : DeleteFail(l)
    \/ \E l \in Loops : DeleteEnd(l)
    \/ \E l \in Loops : LogErr(l)

SeveralStartsSpec == SeveralStartsInit /\ [][SchedulerNext]_vars

\* the sweep of goroutine l is between its select and its last delete
MidSweep(l) == loopPc[l] \in {"rows", "check", "call", "delete"}

\* C14 (as stated): on one store, no sweep starts or runs while another sweep is
\* between its select and its last delete, however often StartCleanup and
\* StopCleanup are called.
C14_Orig ==
    \A l, k \in Loops : (l # k /\ MidSweep(k)) => ~InSweep(l)

\* ------------------------------------------------- replacing the callback
\* C15 (as stated): while the application replaces the callback during a sweep,
\* a notification step calls a callback only after it has observed a non-nil
\* value, and it never calls a nil func value.
C15_Orig ==
    \A l \in Loops :
        /\ loopPc[l] = "call" => cbSeen[l] # Nil
        /\ loopPc[l] # "panic"

\* ------------------------------------------------- failures of the select
\* the cycle of goroutine l has returned the error of its select
SweptSelectErr(l) == loopPc[l] = "swept" /\ err[l] = "selectErr"

\* the step in which the select fails ends the cycle and leaves the rows alone
C16_SelectFailReturns ==
    \A l \in Loops :
        (loopPc[l] = "select" /\ err'[l] = "selectErr") =>
            (loopPc'[l] = "swept" /\ rows' = rows /\ UNCHANGED histVars)

\* C16: when the Prepare or the Query of the expiry select fails, the sweep
\* returns that error at once; in that cycle no row is scanned, no session is
\* loaded, no callback is invoked and no delete is attempted, so the cycle leaves
\* the rows of the store as they were.
C16_SelectErrorDoesNothing ==
    /\ [][C16_SelectFailReturns]_vars
    /\ [](\A l \in Loops : SweptSelectErr(l) =>
            /\ result[l] = << >> /\ ids[l] = << >> /\ i[l] = 0
            /\ session[l] = NoSession
            /\ selected[l] = {} /\ scanFailed[l] = {} /\ loaded[l] = {}
            /\ calls[l] = << >> /\ deleted[l] = << >>)

C16_Witness ==
    \E l \in Loops :
        /\ SweptSelectErr(l)
        /\ ExpiredIds = Ids
        /\ callback # Nil

\* C17: a row whose Scan fails is skipped: its id is not collected for deletion,
\* its session is not loaded and gets no callback, and its row stays; the failure
\* is not the sweep's error, and the sweep goes on with the rows that remain,
\* which are collected, notified when loaded with a callback registered, and
\* deleted when the cycle returns nil.
C17_ScanFailureSkipsRow ==
    \A l \in Loops :
        /\ scanFailed[l] \cap (Range(ids[l]) \cup loaded[l]) = {}
        /\ scanFailed[l] \cap (Range(calls[l]) \cup Range(deleted[l])) = {}
        /\ scanFailed[l] \ touched[l] \subseteq DOMAIN rows
        /\ (loopPc[l] = "swept" /\ scanFailed[l] # {}) => err[l] # "selectErr"
        /\ (Notified(l) /\ scanFailed[l] # {}) =>
              /\ result[l] = << >>
              /\ Range(ids[l]) = selected[l] \ scanFailed[l]
              /\ ~cbNilSeen[l] => Range(calls[l]) = loaded[l]
        /\ (SweptNil(l) /\ scanFailed[l] # {}) =>
              Range(deleted[l]) = selected[l] \ scanFailed[l]

C17_Witness ==
    \E l \in Loops :
        /\ SweptNil(l)
        /\ Cardinality(scanFailed[l]) = 1
        /\ Len(calls[l]) = 1
        /\ deleted[l] = calls[l]
        /\ DOMAIN rows = scanFailed[l]

\* ----------------------------------------------------------- quit and done
\* the goroutine has received the quit of its StopCleanup call
QuitReceived(l) == stopPc[l] \in {"done", "returned"}

\* C18: for one StartCleanup/StopCleanup pair the goroutine sends on done at most
\* once, only after it has received quit, and exactly once by the time
\* StopCleanup has returned; having sent, it is past its loop and only returns.
C18_OneAck ==
    \A l \in Loops :
        /\ acks[l] <= 1
        /\ acks[l] > 0 => QuitReceived(l)
        /\ loopPc[l] = "ack" => (QuitReceived(l) /\ acks[l] = 0)
        /\ stopPc[l] = "returned" <=> acks[l] = 1
        /\ acks[l] = 1 => loopPc[l] \in {"defer", "exited"}
        /\ stopPc[l] = "idle" => ~LoopLeft(l)

C18_Witness ==
    \E l \in Loops :
        /\ acks[l] = 1
        /\ stopPc[l] = "returned"
        /\ loopPc[l] = "exited"

\* C19 (as stated): the ticker is stopped before the acknowledgment is sent: it
\* is stopped in every state in which the acknowledgment is being offered on done
\* or StopCleanup has returned.
C19_Orig ==
    \A l \in Loops : (loopPc[l] = "ack" \/ stopPc[l] = "returned") => ~tickerOn[l]

\* C19 (amended): the ticker is stopped by the deferred call that runs when the
\* goroutine returns, after the acknowledgment was received: it still runs while
\* the acknowledgment is being offered and until the goroutine returns, it is
\* stopped once the goroutine has returned, and that happens eventually after
\* StopCleanup has returned.
C19_StoppedOnReturn ==
    /\ [](\A l \in Loops :
            /\ loopPc[l] \in {"ack", "defer"} => tickerOn[l]
            /\ loopPc[l] = "exited" => ~tickerOn[l]
            /\ (~tickerOn[l] /\ loopPc[l] \notin {"idle", "spawned"}) => acks[l] = 1)
    /\ \A l \in Loops : (stopPc[l] = "returned") ~> (loopPc[l] = "exited" /\ ~tickerOn[l])

C19_Witness ==
    \E l \in Loops :
        /\ stopPc[l] = "returned"
        /\ loopPc[l] = "defer"
        /\ tickerOn[l]
        /\ tickReady[l]

\* ------------------------------------------ a store the application leaves alone
\* one cleanup goroutine; the sessions were saved before and expire at once, a
\* callback is registered, and the application neither saves nor destroys
\* sessions nor replaces the callback
QuietStoreInit ==
    /\ rows = [id \in Ids |-> 0]
    /\ callback \in Callbacks
    /\ clock = 0
    /\ InitLoops
    /\ maxLoops = 1
    /\ requested = 1..MaxInterval

QuietStoreSpec ==
    /\ QuietStoreInit
    /\ [][SchedulerNext]_vars
    /\ WF_vars(AdvanceClock)
    /\ \A l \in Loops : WF_vars(Goroutine(l))

\* the callback has been invoked with the session of id in the current cycle of l
NotifiedNow(l, id) == id \in Range(calls[l])

\* C20 (as stated): with a fixed callback and no re-save, a session row is
\* notified in at most one cycle of a loop: once a cycle that notified it is
\* over, no later cycle notifies it.
C20_Orig ==
    \A l \in Loops : \A id \in Ids :
        [](NotifiedNow(l, id) => [](~NotifiedNow(l, id) => []~NotifiedNow(l, id)))

\* C20 (amended): with a fixed callback and no re-save, a cycle invokes the
\* callback at most once per session; every session notified in a cycle that
\* returns nil has been deleted in that cycle; and a session whose row is gone is
\* never notified again.  (A cycle that aborts on a delete error leaves its
\* notified rows to be notified again.)
C20_NotifiedOncePerCleanCycle ==
    /\ [](\A l \in Loops :
            /\ \A id \in Ids : Count(id, calls[l]) <= 1
            /\ SweptNil(l) =>
                  /\ Range(calls[l]) \subseteq Range(deleted[l])
                  /\ Range(calls[l]) \cap DOMAIN rows = {})
    /\ \A l \in Loops : \A id \in Ids :
          []((id \notin DOMAIN rows /\ ~NotifiedNow(l, id)) => []~NotifiedNow(l, id))

C20_Witness ==
    \E l \in Loops :
        /\ SweptNil(l)
        /\ Len(calls[l]) = NumIds
        /\ Len(deleted[l]) = NumIds
        /\ DOMAIN rows = {}
        /\ callback # Nil

====
